---- MODULE Spec2Model ----
(***************************************************************************)
(* A model of the derivadex matching engine: the account ledger and        *)
(* reservation arithmetic of Engine (src/src/engine/mod.rs), the price-time *)
(* order book OrderBook (src/src/engine/orderbook/mod.rs) and the request   *)
(* handlers that drive them behind one Mutex (src/src/main.rs).             *)
(*                                                                         *)
(* Decimals are modelled by integers (scale 0), Address by 1..NumAddress,  *)
(* H256 order hashes by the tuple of the five hashed fields: keccak256 is  *)
(* taken to be collision free, so the digest is an injective function of   *)
(* exactly {amount, nonce, price, side, traderAddress}.                     *)
(*                                                                         *)
(* A Rust panic (indexing a HashMap with an absent key, unwrap on None)    *)
(* unwinds out of the operation, leaving every write made before it in     *)
(* place; it is modelled by the flag panicked, after which no operation    *)
(* runs (in main.rs the Mutex is poisoned and lock().unwrap() fails).      *)
(***************************************************************************)
EXTENDS Integers, Sequences, FiniteSets, TLC

\* ------------------------------------------------------------------ bounds
NumAddress == 2
MaxAmount == 2
MaxPrice == 2
MaxNonce == 0
MaxTime == 2
MaxOrders == 3
MaxBalance == 4
\* One price level under a clock that ticks at every order.
LevelPrice == 1
MaxLevelAmount == 3
MaxLevelOrders == 5
\* The worker threads of the HttpServer.
NumWorkers == 2
\* Decimals with fractional digits: the largest scale, and how many orders
\* are submitted with them.
MaxScale == 2
MaxDecimalOrders == 2

Address == 1..NumAddress
Amount == 0..MaxAmount
Price == 1..MaxPrice
NonceValue == 0..MaxNonce
Time == 1..MaxTime
Worker == 1..NumWorkers
\* The balances a create_account request carries: negative, zero, positive.
Balance == {-1, 0, MaxBalance}

\* common/mod.rs: enum Side { Bid, Ask }
Side == {"Bid", "Ask"}

\* common/mod.rs: struct Order
Order == [amount : Amount, nonce : NonceValue, price : Price, side : Side,
          trader_address : Address, timestamp : Time]

\* ----------------------------------------------------------------- state
VARIABLES
    accounts,         \* Engine.accounts: HashMap<Address, Account>
    hash_to_address,  \* Engine.hash_to_address: HashMap<H256, Address>
    asks,             \* OrderBook.asks: BTreeMap<(Decimal, u128), Order>
    bids,             \* OrderBook.bids: BTreeMap<(Reverse<Decimal>, u128), Order>
    hash_to_order,    \* OrderBook.hash_to_order: HashMap<H256, Order>
    agg_ask_amt,      \* OrderBook.agg_ask_amt: BTreeMap<Decimal, Decimal>
    agg_bid_amt,      \* OrderBook.agg_bid_amt: BTreeMap<Reverse<Decimal>, Decimal>
    now,              \* the last timestamp handed to an order
    submitted,        \* how many orders have been submitted so far
    result,           \* the last operation and what it returned
    panicked,         \* an operation panicked: the engine is unusable
    inflight,         \* per worker: the order its create_order handler has
                      \* stamped and not yet passed to the engine
    hasher            \* keccak256 at work on the order of tests::test_eip712

vars == <<accounts, hash_to_address, asks, bids, hash_to_order,
          agg_ask_amt, agg_bid_amt, now, submitted, result, panicked, inflight,
          hasher>>

ledgerVars == <<accounts, hash_to_address>>
bookVars == <<asks, bids, hash_to_order, agg_ask_amt, agg_bid_amt>>

\* ------------------------------------------------------------ map helpers
EmptyMap == << >>

\* HashMap/BTreeMap::insert
MapInsert(m, k, v) == [x \in (DOMAIN m) \cup {k} |-> IF x = k THEN v ELSE m[x]]

\* HashMap/BTreeMap::remove (no effect on an absent key)
MapRemove(m, k) == [x \in (DOMAIN m) \ {k} |-> m[x]]

Min(a, b) == IF a < b THEN a ELSE b

\* --------------------------------------------------------------- hashing
\* A digest that takes the timestamp in as a sixth field.
HashWithTimestamp(o) ==
    <<o.amount, o.nonce, o.price, o.side, o.trader_address, o.timestamp>>

\* Eip712::encode over Order::encode_data: the digest of amount, nonce,
\* price, side, traderAddress; the timestamp is not encoded.
Hash(o) == <<o.amount, o.nonce, o.price, o.side, o.trader_address>>

\* ------------------------------------------------ the digest, byte by byte
\* web3::signing::keccak256, as eip712.rs calls it: Keccak-f[1600] in a
\* sponge of rate 136 bytes with the padding 0x01 .. 0x80. A lane of 64 bits
\* is the set of the positions of its 1 bits; the state is 25 lanes, lane
\* x + 5y at index x + 5y.
XorLane(a, b) == (a \ b) \cup (b \ a)
RotLane(a, n) == {(i + n) % 64 : i \in a}

\* The bits of 8 little-endian bytes as a lane, and back.
LaneOfBytes(bs) == {i \in 0..63 : (bs[(i \div 8) + 1] \div (2 ^ (i % 8))) % 2 = 1}
ByteOfLane(l, j) ==
    LET bit(k) == IF 8 * (j - 1) + k \in l THEN 2 ^ k ELSE 0
    IN bit(0) + bit(1) + bit(2) + bit(3) + bit(4) + bit(5) + bit(6) + bit(7)
BytesOfLane(l) == [j \in 1..8 |-> ByteOfLane(l, j)]

\* The round constants and the rotation offsets of Keccak-f[1600].
KeccakRC == <<
     {0}, {1, 7, 15}, {1, 3, 7, 15, 63}, {15, 31, 63}, {0, 1, 3, 7, 15},
     {0, 31}, {0, 7, 15, 31, 63}, {0, 3, 15, 63}, {1, 3, 7}, {3, 7},
     {0, 3, 15, 31}, {1, 3, 31}, {0, 1, 3, 7, 15, 31}, {0, 1, 3, 7, 63},
     {0, 3, 7, 15, 63}, {0, 1, 15, 63}, {1, 15, 63}, {7, 63}, {1, 3, 15},
     {1, 3, 31, 63}, {0, 7, 15, 31, 63}, {7, 15, 63}, {0, 31},
     {3, 15, 31, 63} >>
KeccakRot == <<0, 1, 62, 28, 27, 36, 44, 6, 55, 20, 3, 10, 43, 25, 39,
               41, 45, 15, 21, 8, 18, 2, 61, 56, 14>>

KeccakZero == [i \in 0..24 |-> {}]

\* Round r (0..23) of the permutation: theta, rho and pi, chi, iota.
KeccakRoundOf(A, r) ==
    LET C == [x \in 0..4 |->
                XorLane(A[x], XorLane(A[x + 5], XorLane(A[x + 10],
                        XorLane(A[x + 15], A[x + 20]))))]
        D == [x \in 0..4 |-> XorLane(C[(x + 4) % 5], RotLane(C[(x + 1) % 5], 1))]
        T == [i \in 0..24 |-> XorLane(A[i], D[i % 5])]
        B == [i \in 0..24 |->
                LET x == ((i % 5) + 3 * (i \div 5)) % 5
                    y == i % 5
                IN RotLane(T[x + 5 * y], KeccakRot[x + 5 * y + 1])]
        X == [i \in 0..24 |->
                LET y == i \div 5
                IN XorLane(B[i], B[((i + 2) % 5) + 5 * y] \ B[((i + 1) % 5) + 5 * y])]
    IN [X EXCEPT ![0] = XorLane(@, KeccakRC[r + 1])]

\* The message padded to whole blocks of 136 bytes.
KeccakPadded(msg) ==
    LET n == 136 - (Len(msg) % 136)
    IN IF n = 1 THEN Append(msg, 129)
       ELSE msg \o <<1>> \o [i \in 1..(n - 2) |-> 0] \o <<128>>

\* Block b (1..) of a padded message, xored into the first 17 lanes.
KeccakAbsorbed(A, padded, b) ==
    [i \in 0..24 |->
        IF i < 17
        THEN XorLane(A[i], LaneOfBytes(SubSeq(padded, 136 * (b - 1) + 8 * i + 1,
                                              136 * (b - 1) + 8 * i + 8)))
        ELSE A[i]]

\* The 32 bytes squeezed out: the first four lanes, little-endian.
KeccakSqueezed(A) ==
    BytesOfLane(A[0]) \o BytesOfLane(A[1]) \o BytesOfLane(A[2]) \o BytesOfLane(A[3])

\* U256::to_big_endian of a number below 2^31: 32 bytes, the last four
\* carrying the value.
Word(n) ==
    [i \in 1..28 |-> 0] \o
    <<(n \div 16777216) % 256, (n \div 65536) % 256, (n \div 256) % 256, n % 256>>

\* impl EncodeDataable for Address: the 20 bytes, left-padded to 32.
AddressWord(bs) == [i \in 1..12 |-> 0] \o bs

\* The strings of eip712.rs and orderbook/mod.rs, as their bytes.
\* "EIP712Domain(string name,string version)"
DomainTypeString == <<
     69, 73, 80, 55, 49, 50, 68, 111, 109, 97, 105, 110, 40, 115, 116, 114,
     105, 110, 103, 32, 110, 97, 109, 101, 44, 115, 116, 114, 105, 110,
     103, 32, 118, 101, 114, 115, 105, 111, 110, 41 >>
\* "Order(uint256 amount,uint256 nonce,uint256 price,uint8 side,address traderAddress)"
OrderTypeString == <<
     79, 114, 100, 101, 114, 40, 117, 105, 110, 116, 50, 53, 54, 32, 97,
     109, 111, 117, 110, 116, 44, 117, 105, 110, 116, 50, 53, 54, 32, 110,
     111, 110, 99, 101, 44, 117, 105, 110, 116, 50, 53, 54, 32, 112, 114,
     105, 99, 101, 44, 117, 105, 110, 116, 56, 32, 115, 105, 100, 101, 44,
     97, 100, 100, 114, 101, 115, 115, 32, 116, 114, 97, 100, 101, 114, 65,
     100, 100, 114, 101, 115, 115, 41 >>
\* "DDX take-home"
DomainName == <<
     68, 68, 88, 32, 116, 97, 107, 101, 45, 104, 111, 109, 101 >>
\* "0.1.0"
DomainVersion == <<
     48, 46, 49, 46, 48 >>

\* The order of tests::test_eip712 and the digest it expects.
VectorAmount == 1234
VectorNonce == 12
VectorPrice == 5432
\* 0x3A880652F47bFaa771908C07Dd8673A787dAEd3A
VectorTrader == <<
     58, 136, 6, 82, 244, 123, 250, 167, 113, 144, 140, 7, 221, 134, 115,
     167, 135, 218, 237, 58 >>
\* 0x15a7b83cc86b50aaa2fa0c0871d5dbaae62f116436291e976c84b034b58cb728
VectorDigest == <<
     21, 167, 184, 60, 200, 107, 80, 170, 162, 250, 12, 8, 113, 213, 219,
     170, 230, 47, 17, 100, 54, 41, 30, 151, 108, 132, 176, 52, 181, 140,
     183, 40 >>

\* match self.side { Side::Bid => 0u8, Side::Ask => 1u8 }
SideByte(side) == IF side = "Bid" THEN 0 ELSE 1

\* The order of tests::test_eip712 (its timestamp, 0, is not encoded).
VectorOrder ==
    [amount |-> VectorAmount, nonce |-> VectorNonce, price |-> VectorPrice,
     side |-> "Bid", trader_address |-> VectorTrader]

\* Order::encode_data with price and nonce changing places.
OrderEncodeDataPriceFirst(o) ==
    Word(o.amount) \o Word(o.price) \o Word(o.nonce) \o
    Word(SideByte(o.side)) \o AddressWord(o.trader_address)

\* Order::encode_data: five words of 32 bytes, amount, nonce, price, side,
\* traderAddress.
OrderEncodeData(o) ==
    Word(o.amount) \o Word(o.nonce) \o Word(o.price) \o
    Word(SideByte(o.side)) \o AddressWord(o.trader_address)

\* The seven messages keccak256 is called on to encode the order, in the
\* order their digests are needed; done holds the digests so far.
\*   1 DOMAIN_HASH   2 name.encode_data   3 version.encode_data
\*   4 domain.hash_struct   5 ORDER_HASH   6 order.hash_struct
\*   7 Eip712::encode
DigestMessage(job, done) ==
    CASE job = 1 -> DomainTypeString
      [] job = 2 -> DomainName
      [] job = 3 -> DomainVersion
      [] job = 4 -> done[1] \o done[2] \o done[3]
      [] job = 5 -> OrderTypeString
      [] job = 6 -> done[5] \o OrderEncodeData(VectorOrder)
      [] job = 7 -> <<25, 1>> \o done[4] \o done[6]

HasherStart ==
    [job |-> 1, block |-> 1, pc |-> "absorb", round |-> 0,
     A |-> KeccakZero, done |-> <<>>]

\* ------------------------------------------------------------- order book
\* The five containers of an OrderBook as one value.
Book(a, b, h, aa, ab) ==
    [asks |-> a, bids |-> b, hash_to_order |-> h, agg_ask_amt |-> aa, agg_bid_amt |-> ab]

\* OrderBook::new
NewBook == Book(EmptyMap, EmptyMap, EmptyMap, EmptyMap, EmptyMap)

CurrentBook == Book(asks, bids, hash_to_order, agg_ask_amt, agg_bid_amt)

\* Ord of the ask key (Decimal, u128): lexicographic, ascending price.
AskKeyLE(k1, k2) == k1[1] < k2[1] \/ (k1[1] = k2[1] /\ k1[2] <= k2[2])

\* Ord of the bid key (Reverse<Decimal>, u128): descending price, then time.
BidKeyLE(k1, k2) == k1[1] > k2[1] \/ (k1[1] = k2[1] /\ k1[2] <= k2[2])

\* asks.range((Unbounded, Included((bid.price, bid.timestamp))))
AskRange(a, bid) == {k \in DOMAIN a : AskKeyLE(k, <<bid.price, bid.timestamp>>)}

\* bids.range((Unbounded, Included((Reverse(ask.price), ask.timestamp))))
BidRange(b, ask) == {k \in DOMAIN b : BidKeyLE(k, <<ask.price, ask.timestamp>>)}

FirstAskKey(keys) == CHOOSE k \in keys : \A j \in keys : AskKeyLE(k, j)
FirstBidKey(keys) == CHOOSE k \in keys : \A j \in keys : BidKeyLE(k, j)

\* add_bid's matching loop over the asks in range, in key order: the fills
\* and the taker with what remains of its amount.
RECURSIVE BidFills(_, _, _, _, _)
BidFills(a, keys, bid, taker_hash, fills) ==
    IF keys = {} THEN [fills |-> fills, taker |-> bid]
    ELSE LET k == FirstAskKey(keys)
             ask == a[k]
         IN IF ask.trader_address = bid.trader_address
            THEN [fills |-> fills, taker |-> bid]
            ELSE LET fill_amount == Min(bid.amount, ask.amount)
                     fill == [maker_hash |-> Hash(ask), taker_hash |-> taker_hash,
                              fill_amount |-> fill_amount, price |-> ask.price]
                     rest == [bid EXCEPT !.amount = @ - fill_amount]
                 IN IF rest.amount = 0
                    THEN [fills |-> Append(fills, fill), taker |-> rest]
                    ELSE BidFills(a, keys \ {k}, rest, taker_hash, Append(fills, fill))

\* add_ask's matching loop over the bids in range.
RECURSIVE AskFills(_, _, _, _, _)
AskFills(b, keys, ask, taker_hash, fills) ==
    IF keys = {} THEN [fills |-> fills, taker |-> ask]
    ELSE LET k == FirstBidKey(keys)
             bid == b[k]
         IN IF bid.trader_address = ask.trader_address
            THEN [fills |-> fills, taker |-> ask]
            ELSE LET fill_amount == Min(ask.amount, bid.amount)
                     fill == [maker_hash |-> Hash(bid), taker_hash |-> taker_hash,
                              fill_amount |-> fill_amount, price |-> bid.price]
                     rest == [ask EXCEPT !.amount = @ - fill_amount]
                 IN IF rest.amount = 0
                    THEN [fills |-> Append(fills, fill), taker |-> rest]
                    ELSE AskFills(b, keys \ {k}, rest, taker_hash, Append(fills, fill))

\* One iteration of add_bid's "update book to reflect fills" loop.
\* s is [book, panic]; a panic leaves the writes made so far.
BidApplyFill(s, fill) ==
    LET bk == s.book IN
    IF fill.maker_hash \notin DOMAIN bk.hash_to_order
    THEN [s EXCEPT !.panic = TRUE]
    ELSE
    LET ask == bk.hash_to_order[fill.maker_hash]
        key == <<ask.price, ask.timestamp>>
    IN IF ask.amount = fill.fill_amount
       THEN LET b1 == [bk EXCEPT !.asks = MapRemove(@, key),
                                 !.hash_to_order = MapRemove(@, fill.maker_hash)]
            IN IF ask.price \notin DOMAIN b1.agg_ask_amt
               THEN [book |-> b1, panic |-> TRUE]
               ELSE LET left == b1.agg_ask_amt[ask.price] - ask.amount
                    IN [book |-> [b1 EXCEPT !.agg_ask_amt =
                                     IF left = 0 THEN MapRemove(@, ask.price)
                                     ELSE [@ EXCEPT ![ask.price] = left]],
                        panic |-> FALSE]
       ELSE IF key \notin DOMAIN bk.asks
            THEN [s EXCEPT !.panic = TRUE]
            ELSE LET b1 == [bk EXCEPT !.asks[key].amount = @ - fill.fill_amount]
                 IN IF ask.price \notin DOMAIN b1.agg_ask_amt
                    THEN [book |-> b1, panic |-> TRUE]
                    ELSE [book |-> [b1 EXCEPT !.agg_ask_amt[ask.price] = @ - ask.amount],
                          panic |-> FALSE]

\* One iteration of add_ask's update loop; taker is the ask as the matching
\* loop left it (the code subtracts ask.amount, the taker's remainder).
AskApplyFill(s, fill, taker) ==
    LET bk == s.book IN
    IF fill.maker_hash \notin DOMAIN bk.hash_to_order
    THEN [s EXCEPT !.panic = TRUE]
    ELSE
    LET bid == bk.hash_to_order[fill.maker_hash]
        key == <<bid.price, bid.timestamp>>
    IN IF bid.amount = fill.fill_amount
       THEN LET b1 == [bk EXCEPT !.bids = MapRemove(@, key),
                                 !.hash_to_order = MapRemove(@, fill.maker_hash)]
            IN IF bid.price \notin DOMAIN b1.agg_bid_amt
               THEN [book |-> b1, panic |-> TRUE]
               ELSE LET left == b1.agg_bid_amt[bid.price] - taker.amount
                    IN [book |-> [b1 EXCEPT !.agg_bid_amt =
                                     IF left = 0 THEN MapRemove(@, bid.price)
                                     ELSE [@ EXCEPT ![bid.price] = left]],
                        panic |-> FALSE]
       ELSE IF key \notin DOMAIN bk.bids
            THEN [s EXCEPT !.panic = TRUE]
            ELSE LET b1 == [bk EXCEPT !.bids[key].amount = @ - fill.fill_amount]
                 IN IF bid.price \notin DOMAIN b1.agg_bid_amt
                    THEN [book |-> b1, panic |-> TRUE]
                    ELSE [book |-> [b1 EXCEPT !.agg_bid_amt[bid.price] = @ - taker.amount],
                          panic |-> FALSE]

\* The update loops: the fills in order, stopping at a panic.
RECURSIVE BidApplyFills(_, _)
BidApplyFills(s, fills) ==
    IF fills = << >> \/ s.panic THEN s
    ELSE BidApplyFills(BidApplyFill(s, Head(fills)), Tail(fills))

RECURSIVE AskApplyFills(_, _, _)
AskApplyFills(s, fills, taker) ==
    IF fills = << >> \/ s.panic THEN s
    ELSE AskApplyFills(AskApplyFill(s, Head(fills), taker), Tail(fills), taker)

\* add_bid's "add remaining bid to book".
RestBid(bk, bid, taker_hash) ==
    LET key == <<bid.price, bid.timestamp>>
        b1 == [bk EXCEPT !.bids = MapInsert(@, key, bid)]
    IN [b1 EXCEPT !.hash_to_order = MapInsert(@, taker_hash, b1.bids[key]),
                  !.agg_bid_amt = MapInsert(@, bid.price,
                      (IF bid.price \in DOMAIN @ THEN @[bid.price] ELSE 0) + bid.amount)]

\* add_ask's "add remaining ask to book".
RestAsk(bk, ask, taker_hash) ==
    LET key == <<ask.price, ask.timestamp>>
        b1 == [bk EXCEPT !.asks = MapInsert(@, key, ask)]
    IN [b1 EXCEPT !.hash_to_order = MapInsert(@, taker_hash, b1.asks[key]),
                  !.agg_ask_amt = MapInsert(@, ask.price,
                      (IF ask.price \in DOMAIN @ THEN @[ask.price] ELSE 0) + ask.amount)]

\* What a book operation gives back: the book it leaves, whether it
\* panicked, and its Result (kind "Ok" with fills, or the error's kind).
BookOutcome(bk, panic, kind, fills) ==
    [book |-> bk, panic |-> panic, kind |-> kind, fills |-> fills]

\* OrderBook::add_bid
add_bid(bk, bid) ==
    LET taker_hash == Hash(bid) IN
    IF /\ taker_hash \in DOMAIN bk.hash_to_order
       /\ bk.hash_to_order[taker_hash].trader_address = bid.trader_address
    THEN BookOutcome(bk, FALSE, "DuplicateOrder", << >>)
    ELSE LET m == BidFills(bk.asks, AskRange(bk.asks, bid), bid, taker_hash, << >>)
             u == BidApplyFills([book |-> bk, panic |-> FALSE], m.fills)
         IN IF u.panic
            THEN BookOutcome(u.book, TRUE, "Panic", << >>)
            ELSE BookOutcome(IF m.taker.amount > 0
                             THEN RestBid(u.book, m.taker, taker_hash)
                             ELSE u.book,
                             FALSE, "Ok", m.fills)

\* OrderBook::add_ask
add_ask(bk, ask) ==
    LET taker_hash == Hash(ask) IN
    IF /\ taker_hash \in DOMAIN bk.hash_to_order
       /\ bk.hash_to_order[taker_hash].trader_address = ask.trader_address
    THEN BookOutcome(bk, FALSE, "DuplicateOrder", << >>)
    ELSE LET m == AskFills(bk.bids, BidRange(bk.bids, ask), ask, taker_hash, << >>)
             u == AskApplyFills([book |-> bk, panic |-> FALSE], m.fills, m.taker)
         IN IF u.panic
            THEN BookOutcome(u.book, TRUE, "Panic", << >>)
            ELSE BookOutcome(IF m.taker.amount > 0
                             THEN RestAsk(u.book, m.taker, taker_hash)
                             ELSE u.book,
                             FALSE, "Ok", m.fills)

\* OrderBook::delete_order
delete_order(bk, order_hash) ==
    IF order_hash \notin DOMAIN bk.hash_to_order
    THEN BookOutcome(bk, FALSE, "OrderNotFound", << >>)
    ELSE
    LET order == bk.hash_to_order[order_hash]
        key == <<order.price, order.timestamp>>
    IN IF order.side = "Bid"
       THEN LET b1 == [bk EXCEPT !.bids = MapRemove(@, key)]
            IN IF order.price \notin DOMAIN b1.agg_bid_amt
               THEN BookOutcome(b1, TRUE, "Panic", << >>)
               ELSE LET left == b1.agg_bid_amt[order.price] - order.amount
                    IN BookOutcome(
                         [b1 EXCEPT !.agg_bid_amt =
                                        IF left = 0 THEN MapRemove(@, order.price)
                                        ELSE [@ EXCEPT ![order.price] = left],
                                    !.hash_to_order = MapRemove(@, order_hash)],
                         FALSE, "Ok", << >>)
       ELSE LET b1 == [bk EXCEPT !.asks = MapRemove(@, key)]
            IN IF order.price \notin DOMAIN b1.agg_ask_amt
               THEN BookOutcome(b1, TRUE, "Panic", << >>)
               ELSE LET left == b1.agg_ask_amt[order.price] - order.amount
                    IN BookOutcome(
                         [b1 EXCEPT !.agg_ask_amt =
                                        IF left = 0 THEN MapRemove(@, order.price)
                                        ELSE [@ EXCEPT ![order.price] = left],
                                    !.hash_to_order = MapRemove(@, order_hash)],
                         FALSE, "Ok", << >>)

\* OrderBook::get_order
get_order(bk, order_hash) ==
    IF order_hash \in DOMAIN bk.hash_to_order
    THEN [kind |-> "Ok", order |-> bk.hash_to_order[order_hash]]
    ELSE [kind |-> "OrderNotFound", order |-> order_hash]

\* ----------------------------------------------------------------- engine
\* common/mod.rs: struct Account; the two *_book_outstanding fields are
\* #[serde(skip)], so a deserialized account carries 0 in both.
NewAccount(address, ddx, usd) ==
    [trader_address |-> address, ddx_balance |-> ddx, usd_balance |-> usd,
     ddx_book_outstanding |-> 0, usd_book_outstanding |-> 0]

\* What an engine operation gives back: the ledger and book it leaves,
\* whether it panicked, and its Result: kind "Ok" with a value, or the
\* error's kind with the error's fields.
EngineOutcome(accts, bk, panic, kind, value) ==
    [accounts |-> accts, book |-> bk, panic |-> panic, kind |-> kind, value |-> value]

\* Engine::create_account
create_account(accts, bk, account) ==
    IF account.trader_address \in DOMAIN accts
    THEN EngineOutcome(accts, bk, FALSE, "AccountAlreadyExists", account.trader_address)
    ELSE IF account.ddx_balance < 0
    THEN EngineOutcome(accts, bk, FALSE, "NegativeBalance", account.ddx_balance)
    ELSE IF account.usd_balance < 0
    THEN EngineOutcome(accts, bk, FALSE, "NegativeBalance", account.usd_balance)
    ELSE EngineOutcome(accts, bk, FALSE, "Ok", account.trader_address)

\* Engine::get_account
get_account(accts, bk, address) ==
    IF address \in DOMAIN accts
    THEN EngineOutcome(accts, bk, FALSE, "Ok", accts[address])
    ELSE EngineOutcome(accts, bk, FALSE, "AccountNotFound", address)

\* Engine::delete_account
delete_account(accts, bk, address) ==
    IF address \in DOMAIN accts
    THEN EngineOutcome(MapRemove(accts, address), bk, FALSE, "Ok", address)
    ELSE EngineOutcome(accts, bk, FALSE, "AccountNotFound", address)

\* The closure create_order runs on each fill of a bid (mod.rs 78-89).
\* s is [accounts, panic].
SettleBidFill(s, h2a, fill, trader) ==
    LET usd_cost == fill.fill_amount * fill.price
        a1 == [s.accounts EXCEPT ![trader].usd_balance = @ - usd_cost,
                                 ![trader].usd_book_outstanding = @ - usd_cost]
    IN IF fill.maker_hash \notin DOMAIN h2a
       THEN [accounts |-> a1, panic |-> TRUE]
       ELSE IF h2a[fill.maker_hash] \notin DOMAIN a1
       THEN [accounts |-> a1, panic |-> TRUE]
       ELSE LET maker == h2a[fill.maker_hash]
            IN [accounts |-> [a1 EXCEPT ![maker].ddx_balance = @ - fill.fill_amount,
                                        ![maker].ddx_book_outstanding = @ - fill.fill_amount],
                panic |-> FALSE]

\* The closure create_order runs on each fill of an ask (mod.rs 108-119).
SettleAskFill(s, h2a, fill, trader) ==
    LET usd_cost == fill.fill_amount * fill.price
        a1 == [s.accounts EXCEPT ![trader].ddx_balance = @ - fill.fill_amount,
                                 ![trader].ddx_book_outstanding = @ - fill.fill_amount]
    IN IF fill.maker_hash \notin DOMAIN h2a
       THEN [accounts |-> a1, panic |-> TRUE]
       ELSE IF h2a[fill.maker_hash] \notin DOMAIN a1
       THEN [accounts |-> a1, panic |-> TRUE]
       ELSE LET maker == h2a[fill.maker_hash]
            IN [accounts |-> [a1 EXCEPT ![maker].ddx_balance = @ - usd_cost,
                                        ![maker].ddx_book_outstanding = @ - usd_cost],
                panic |-> FALSE]

\* fills.iter().for_each(...), stopping at a panic.
RECURSIVE SettleBidFills(_, _, _, _)
SettleBidFills(s, h2a, fills, trader) ==
    IF fills = << >> \/ s.panic THEN s
    ELSE SettleBidFills(SettleBidFill(s, h2a, Head(fills), trader), h2a, Tail(fills), trader)

RECURSIVE SettleAskFills(_, _, _, _)
SettleAskFills(s, h2a, fills, trader) ==
    IF fills = << >> \/ s.panic THEN s
    ELSE SettleAskFills(SettleAskFill(s, h2a, Head(fills), trader), h2a, Tail(fills), trader)

\* A balance check that forgets what is already reserved: the free amount
\* taken to be the whole balance.
InsufficientUsdIgnoringReserved(taker, usd_cost) ==
    taker.usd_balance < usd_cost

\* The balance check of a bid (mod.rs 67): not enough free usd.
InsufficientUsd(taker, usd_cost) ==
    taker.usd_balance - taker.usd_book_outstanding < usd_cost

\* The balance check of an ask (mod.rs 97): not enough free ddx.
InsufficientDdx(taker, ddx_cost) ==
    taker.ddx_balance - taker.ddx_book_outstanding < ddx_cost

\* Engine::create_order, Side::Bid arm.
CreateBid(accts, h2a, bk, order) ==
    LET trader == order.trader_address
        taker == accts[trader]
        usd_cost == order.amount * order.price
    IN IF InsufficientUsd(taker, usd_cost)
       THEN EngineOutcome(accts, bk, FALSE, "InsufficientBalance",
                          <<taker.usd_balance, usd_cost>>)
       ELSE LET a1 == [accts EXCEPT ![trader].usd_book_outstanding = @ + usd_cost]
                r == add_bid(bk, order)
            IN IF r.panic
               THEN EngineOutcome(a1, r.book, TRUE, "Panic", << >>)
               ELSE IF r.kind # "Ok"
               THEN EngineOutcome(a1, r.book, FALSE, r.kind, <<Hash(order), trader>>)
               ELSE LET s == SettleBidFills([accounts |-> a1, panic |-> FALSE],
                                            h2a, r.fills, trader)
                    IN IF s.panic
                       THEN EngineOutcome(s.accounts, r.book, TRUE, "Panic", << >>)
                       ELSE EngineOutcome(s.accounts, r.book, FALSE, "Ok", r.fills)

\* Engine::create_order, Side::Ask arm.
CreateAsk(accts, h2a, bk, order) ==
    LET trader == order.trader_address
        taker == accts[trader]
        ddx_cost == order.amount
    IN IF InsufficientDdx(taker, ddx_cost)
       THEN EngineOutcome(accts, bk, FALSE, "InsufficientBalance",
                          <<taker.ddx_balance, ddx_cost>>)
       ELSE LET a1 == [accts EXCEPT ![trader].ddx_book_outstanding = @ + ddx_cost]
                r == add_ask(bk, order)
            IN IF r.panic
               THEN EngineOutcome(a1, r.book, TRUE, "Panic", << >>)
               ELSE IF r.kind # "Ok"
               THEN EngineOutcome(a1, r.book, FALSE, r.kind, <<Hash(order), trader>>)
               ELSE LET s == SettleAskFills([accounts |-> a1, panic |-> FALSE],
                                            h2a, r.fills, trader)
                    IN IF s.panic
                       THEN EngineOutcome(s.accounts, r.book, TRUE, "Panic", << >>)
                       ELSE EngineOutcome(s.accounts, r.book, FALSE, "Ok", r.fills)

\* Engine::create_order: self.accounts[&order.trader_address] panics on an
\* address the ledger does not hold.
create_order(accts, h2a, bk, order) ==
    IF order.trader_address \notin DOMAIN accts
    THEN EngineOutcome(accts, bk, TRUE, "Panic", << >>)
    ELSE IF order.side = "Bid"
    THEN CreateBid(accts, h2a, bk, order)
    ELSE CreateAsk(accts, h2a, bk, order)

\* Engine::delete_order
engine_delete_order(accts, bk, order_hash) ==
    LET r == delete_order(bk, order_hash)
    IN EngineOutcome(accts, r.book, r.panic, r.kind, order_hash)

\* Engine::get_order
engine_get_order(accts, bk, order_hash) ==
    LET r == get_order(bk, order_hash)
    IN EngineOutcome(accts, bk, FALSE, r.kind, r.order)

\* ------------------------------------------------------ engine operations
\* The hashes a request may name: those of the resting orders and one
\* more, which no order need rest under.
OrderHash == (DOMAIN hash_to_order) \cup {<<1, 0, 1, "Bid", 1>>}

\* The record of the last operation: its name, the order it submitted (if
\* it submitted one) and the Result it returned.
Returned(op, order, kind, value) ==
    [op |-> op, order |-> order, kind |-> kind, value |-> value]

NoOrder == << >>

\* The state an engine operation leaves.
Leave(op, order, out) ==
    /\ accounts' = out.accounts
    /\ asks' = out.book.asks
    /\ bids' = out.book.bids
    /\ hash_to_order' = out.book.hash_to_order
    /\ agg_ask_amt' = out.book.agg_ask_amt
    /\ agg_bid_amt' = out.book.agg_bid_amt
    /\ panicked' = out.panic
    /\ result' = Returned(op, order, out.kind, out.value)

\* A call of Engine::create_account.
EngineCreateAccount ==
    /\ ~panicked
    /\ \E address \in Address, ddx \in Balance, usd \in Balance :
          Leave("create_account", NoOrder,
                create_account(accounts, CurrentBook, NewAccount(address, ddx, usd)))
    /\ UNCHANGED <<hash_to_address, now, submitted, inflight, hasher>>

\* A call of Engine::delete_account.
EngineDeleteAccount ==
    /\ ~panicked
    /\ \E address \in Address :
          Leave("delete_account", NoOrder, delete_account(accounts, CurrentBook, address))
    /\ UNCHANGED <<hash_to_address, now, submitted, inflight, hasher>>

\* A call of Engine::create_order with a timestamp not before the last one.
EngineCreateOrder ==
    /\ ~panicked
    /\ submitted < MaxOrders
    /\ \E order \in Order :
          /\ order.timestamp >= now
          /\ now' = order.timestamp
          /\ submitted' = submitted + 1
          /\ Leave("create_order", order,
                   create_order(accounts, hash_to_address, CurrentBook, order))
    /\ UNCHANGED <<hash_to_address, inflight, hasher>>

\* A call of Engine::delete_order.
EngineDeleteOrder ==
    /\ ~panicked
    /\ \E order_hash \in OrderHash :
          Leave("delete_order", NoOrder,
                engine_delete_order(accounts, CurrentBook, order_hash))
    /\ UNCHANGED <<hash_to_address, now, submitted, inflight, hasher>>

\* No worker holds a stamped order.
NoInflight == [w \in Worker |-> NoOrder]

NoResult == Returned("new", NoOrder, "Ok", << >>)

\* Engine::new
Init ==
    /\ accounts = EmptyMap
    /\ hash_to_address = EmptyMap
    /\ asks = NewBook.asks
    /\ bids = NewBook.bids
    /\ hash_to_order = NewBook.hash_to_order
    /\ agg_ask_amt = NewBook.agg_ask_amt
    /\ agg_bid_amt = NewBook.agg_bid_amt
    /\ now = 0
    /\ submitted = 0
    /\ result = NoResult
    /\ panicked = FALSE
    /\ inflight = NoInflight
    /\ hasher = HasherStart

NextEngine ==
    \/ EngineCreateAccount
    \/ EngineDeleteAccount
    \/ EngineCreateOrder
    \/ EngineDeleteOrder

\* ------------------------------------------------------ request handlers
\* engine.lock().unwrap() on a Mutex poisoned by an earlier panic: the
\* handler panics in its turn and the engine is not touched.
Poisoned(op, order) ==
    /\ result' = Returned(op, order, "PoisonError", << >>)
    /\ UNCHANGED <<accounts, bookVars, panicked>>

\* main.rs create_account: POST /accounts
PostAccount ==
    /\ \E address \in Address, ddx \in Balance, usd \in Balance :
          IF panicked THEN Poisoned("create_account", NoOrder)
          ELSE Leave("create_account", NoOrder,
                     create_account(accounts, CurrentBook, NewAccount(address, ddx, usd)))
    /\ UNCHANGED <<hash_to_address, now, submitted, inflight, hasher>>

\* main.rs get_account: GET /accounts/{traderAddress}
GetAccount ==
    /\ \E address \in Address :
          IF panicked THEN Poisoned("get_account", NoOrder)
          ELSE Leave("get_account", NoOrder, get_account(accounts, CurrentBook, address))
    /\ UNCHANGED <<hash_to_address, now, submitted, inflight, hasher>>

\* main.rs delete_account: DELETE /accounts/{traderAddress}
DeleteAccount ==
    /\ \E address \in Address :
          IF panicked THEN Poisoned("delete_account", NoOrder)
          ELSE Leave("delete_account", NoOrder,
                     delete_account(accounts, CurrentBook, address))
    /\ UNCHANGED <<hash_to_address, now, submitted, inflight, hasher>>

\* main.rs create_order: POST /orders. The handler stamps the order with
\* the clock's reading (here a clock that never runs backwards) and then
\* takes the lock.
PostOrder ==
    /\ submitted < MaxOrders
    /\ \E order \in Order :
          /\ order.timestamp >= now
          /\ now' = order.timestamp
          /\ submitted' = submitted + 1
          /\ IF panicked THEN Poisoned("create_order", order)
             ELSE Leave("create_order", order,
                        create_order(accounts, hash_to_address, CurrentBook, order))
    /\ UNCHANGED <<hash_to_address, inflight, hasher>>

\* main.rs get_order: GET /orders/{hash}
GetOrder ==
    /\ \E order_hash \in OrderHash :
          IF panicked THEN Poisoned("get_order", NoOrder)
          ELSE Leave("get_order", NoOrder,
                     engine_get_order(accounts, CurrentBook, order_hash))
    /\ UNCHANGED <<hash_to_address, now, submitted, inflight, hasher>>

\* main.rs delete_order: DELETE /orders/{hash}
DeleteOrder ==
    /\ \E order_hash \in OrderHash :
          IF panicked THEN Poisoned("delete_order", NoOrder)
          ELSE Leave("delete_order", NoOrder,
                     engine_delete_order(accounts, CurrentBook, order_hash))
    /\ UNCHANGED <<hash_to_address, now, submitted, inflight, hasher>>

Next ==
    \/ PostAccount
    \/ GetAccount
    \/ DeleteAccount
    \/ PostOrder
    \/ GetOrder
    \/ DeleteOrder

\* The program: the handlers of main.rs on the engine main() constructs.
Spec == Init /\ [][Next]_vars

\* ------------------------------------------------- the order book alone
\* The state a book operation leaves and the record of what it returned.
LeaveBook(op, order, out) ==
    /\ asks' = out.book.asks
    /\ bids' = out.book.bids
    /\ hash_to_order' = out.book.hash_to_order
    /\ agg_ask_amt' = out.book.agg_ask_amt
    /\ agg_bid_amt' = out.book.agg_bid_amt
    /\ panicked' = out.panic
    /\ result' = Returned(op, order, out.kind, out.fills)

\* A call of OrderBook::add_bid with a timestamp not before the last one.
BookAddBid ==
    /\ ~panicked
    /\ submitted < MaxOrders
    /\ \E order \in Order :
          /\ order.side = "Bid"
          /\ order.timestamp >= now
          /\ now' = order.timestamp
          /\ submitted' = submitted + 1
          /\ LeaveBook("add_bid", order, add_bid(CurrentBook, order))
    /\ UNCHANGED <<ledgerVars, inflight, hasher>>

\* A call of OrderBook::add_ask with a timestamp not before the last one.
BookAddAsk ==
    /\ ~panicked
    /\ submitted < MaxOrders
    /\ \E order \in Order :
          /\ order.side = "Ask"
          /\ order.timestamp >= now
          /\ now' = order.timestamp
          /\ submitted' = submitted + 1
          /\ LeaveBook("add_ask", order, add_ask(CurrentBook, order))
    /\ UNCHANGED <<ledgerVars, inflight, hasher>>

\* A call of OrderBook::delete_order.
BookDeleteOrder ==
    /\ ~panicked
    /\ \E order_hash \in OrderHash :
          LeaveBook("delete_order", NoOrder, delete_order(CurrentBook, order_hash))
    /\ UNCHANGED <<ledgerVars, now, submitted, inflight, hasher>>

NextBook ==
    \/ BookAddBid
    \/ BookAddAsk
    \/ BookDeleteOrder

\* The OrderBook driven through its own interface, from OrderBook::new.
SpecBook == Init /\ [][NextBook]_vars

\* ------------------------------------------------------ one price level
\* The orders of one price level: every order at LevelPrice, stamped by a
\* clock that has ticked since the order before it.
LevelOrder ==
    [amount : 0..MaxLevelAmount, nonce : {0}, price : {LevelPrice}, side : Side,
     trader_address : Address, timestamp : {now + 1}]

\* A call of OrderBook::add_bid at the level.
LevelAddBid ==
    /\ ~panicked
    /\ submitted < MaxLevelOrders
    /\ \E order \in LevelOrder :
          /\ order.side = "Bid"
          /\ now' = order.timestamp
          /\ submitted' = submitted + 1
          /\ LeaveBook("add_bid", order, add_bid(CurrentBook, order))
    /\ UNCHANGED <<ledgerVars, inflight, hasher>>

\* A call of OrderBook::add_ask at the level.
LevelAddAsk ==
    /\ ~panicked
    /\ submitted < MaxLevelOrders
    /\ \E order \in LevelOrder :
          /\ order.side = "Ask"
          /\ now' = order.timestamp
          /\ submitted' = submitted + 1
          /\ LeaveBook("add_ask", order, add_ask(CurrentBook, order))
    /\ UNCHANGED <<ledgerVars, inflight, hasher>>

NextLevel ==
    \/ LevelAddBid
    \/ LevelAddAsk
    \/ BookDeleteOrder

\* The OrderBook at one price level, from OrderBook::new.
SpecLevel == Init /\ [][NextLevel]_vars

\* ------------------------------------------- decimals with a fraction
\* rust_decimal::Decimal: an integer mantissa and the number of its digits
\* that stand after the point (the scale). The other specifications submit
\* Decimals of scale 0 and write them as their mantissa.
Decimal(mantissas) == [mantissa : mantissas, scale : 0..MaxScale]

\* An Order as a request carries it, amount >= 0 and price > 0.
DecimalOrder ==
    [amount : Decimal(Amount), nonce : NonceValue, price : Decimal(Price), side : Side,
     trader_address : Address, timestamp : Time]

DigitChars == <<"0", "1", "2", "3", "4", "5", "6", "7", "8", "9">>

\* The decimal digits of a natural number.
RECURSIVE Digits(_)
Digits(n) ==
    IF n < 10 THEN <<DigitChars[n + 1]>>
    ELSE Append(Digits(n \div 10), DigitChars[(n % 10) + 1])

\* Decimal::to_string: the digits of the mantissa, filled with zeros up to
\* scale + 1 digits, with a point before the last scale digits; a Decimal
\* of scale 0 prints no point.
DecimalToString(d) ==
    LET ds == Digits(d.mantissa)
        s == IF Len(ds) > d.scale THEN ds
             ELSE [i \in 1..(d.scale + 1 - Len(ds)) |-> "0"] \o ds
        n == Len(s) - d.scale
    IN IF d.scale = 0 THEN s
       ELSE SubSeq(s, 1, n) \o <<".">> \o SubSeq(s, n + 1, Len(s))

\* The number a sequence of digits writes.
RECURSIVE NumberOf(_)
NumberOf(s) ==
    IF s = << >> THEN 0
    ELSE 10 * NumberOf(SubSeq(s, 1, Len(s) - 1))
         + (CHOOSE v \in 0..9 : DigitChars[v + 1] = s[Len(s)])

\* U256::from_dec_str: Err(InvalidCharacter) on any character that is no
\* digit.
from_dec_str(s) ==
    IF \E i \in 1..Len(s) : \A v \in 0..9 : DigitChars[v + 1] # s[i]
    THEN [ok |-> FALSE, value |-> 0]
    ELSE [ok |-> TRUE, value |-> NumberOf(s)]

\* decimal_to_u256, before its unwrap().
decimal_to_u256(decimal) == from_dec_str(DecimalToString(decimal))

\* Order::encode_data's two calls of decimal_to_u256(..) with their unwrap():
\* does computing the hash of the order panic?
HashPanics(order) ==
    ~decimal_to_u256(order.amount).ok \/ ~decimal_to_u256(order.price).ok

\* The order with its Decimals of scale 0 written as their mantissa.
Scale0(order) ==
    [order EXCEPT !.amount = decimal_to_u256(order.amount).value,
                  !.price = decimal_to_u256(order.price).value]

\* add_bid / add_ask on an order whose Decimals may have a fraction: the
\* hash is computed on the first line, and a panic there leaves the book.
AddDecimal(op, order) ==
    IF HashPanics(order)
    THEN /\ panicked' = TRUE
         /\ result' = Returned(op, order, "Panic", << >>)
         /\ UNCHANGED bookVars
    ELSE LeaveBook(op, order,
                   IF op = "add_bid" THEN add_bid(CurrentBook, Scale0(order))
                   ELSE add_ask(CurrentBook, Scale0(order)))

\* A call of OrderBook::add_bid.
DecimalAddBid ==
    /\ ~panicked
    /\ submitted < MaxDecimalOrders
    /\ \E order \in DecimalOrder :
          /\ order.side = "Bid"
          /\ order.timestamp >= now
          /\ now' = order.timestamp
          /\ submitted' = submitted + 1
          /\ AddDecimal("add_bid", order)
    /\ UNCHANGED <<ledgerVars, inflight, hasher>>

\* A call of OrderBook::add_ask.
DecimalAddAsk ==
    /\ ~panicked
    /\ submitted < MaxDecimalOrders
    /\ \E order \in DecimalOrder :
          /\ order.side = "Ask"
          /\ order.timestamp >= now
          /\ now' = order.timestamp
          /\ submitted' = submitted + 1
          /\ AddDecimal("add_ask", order)
    /\ UNCHANGED <<ledgerVars, inflight, hasher>>

NextDecimal ==
    \/ DecimalAddBid
    \/ DecimalAddAsk

\* The OrderBook taking orders whose amounts and prices have up to MaxScale
\* fractional digits.
SpecDecimal == Init /\ [][NextDecimal]_vars

\* ------------------------------------------- the engine over a ledger
\* Ledgers of accounts as create_account accepts them: MaxBalance of each
\* asset, nothing reserved. The empty ledger of Engine::new is one of them.
OpenedLedger ==
    {[a \in as |-> NewAccount(a, MaxBalance, MaxBalance)] : as \in SUBSET Address}

InitLedger ==
    /\ accounts \in OpenedLedger
    /\ hash_to_address = EmptyMap
    /\ asks = NewBook.asks
    /\ bids = NewBook.bids
    /\ hash_to_order = NewBook.hash_to_order
    /\ agg_ask_amt = NewBook.agg_ask_amt
    /\ agg_bid_amt = NewBook.agg_bid_amt
    /\ now = 0
    /\ submitted = 0
    /\ result = NoResult
    /\ panicked = FALSE
    /\ inflight = NoInflight
    /\ hasher = HasherStart

\* The engine's operations on a ledger that holds accounts.
SpecLedger == InitLedger /\ [][NextEngine]_vars

\* ------------------------------------------- keccak256, step by step
otherVars == <<accounts, hash_to_address, asks, bids, hash_to_order,
               agg_ask_amt, agg_bid_amt, now, submitted, result, panicked,
               inflight>>

\* keccak256 takes the next block of the message in.
KeccakAbsorb ==
    /\ hasher.job \in 1..7
    /\ hasher.pc = "absorb"
    /\ hasher' = [hasher EXCEPT
                    !.A = KeccakAbsorbed(hasher.A,
                              KeccakPadded(DigestMessage(hasher.job, hasher.done)),
                              hasher.block),
                    !.pc = "permute",
                    !.round = 0]
    /\ UNCHANGED otherVars

\* One of the 24 rounds of the permutation.
KeccakPermute ==
    /\ hasher.pc = "permute"
    /\ hasher.round < 24
    /\ hasher' = [hasher EXCEPT !.A = KeccakRoundOf(hasher.A, hasher.round),
                                !.round = hasher.round + 1]
    /\ UNCHANGED otherVars

\* After the permutation: the next block, or the digest is out and the next
\* message begins.
KeccakOutput ==
    /\ hasher.pc = "permute"
    /\ hasher.round = 24
    /\ hasher' =
         IF 136 * hasher.block <
                Len(KeccakPadded(DigestMessage(hasher.job, hasher.done)))
         THEN [hasher EXCEPT !.block = hasher.block + 1, !.pc = "absorb"]
         ELSE [job |-> hasher.job + 1, block |-> 1, pc |-> "absorb", round |-> 0,
               A |-> KeccakZero,
               done |-> Append(hasher.done, KeccakSqueezed(hasher.A))]
    /\ UNCHANGED otherVars

NextDigest ==
    \/ KeccakAbsorb
    \/ KeccakPermute
    \/ KeccakOutput

SpecDigest == Init /\ [][NextDigest]_vars

\* --------------------------------------------------- concurrent handlers
\* main.rs create_order, first half, on worker w: the handler reads the
\* clock (a clock that never runs backwards) into request.timestamp; it
\* does not hold the lock.
StampOrder ==
    /\ submitted < MaxOrders
    /\ \E w \in Worker, order \in Order :
          /\ inflight[w] = NoOrder
          /\ order.timestamp >= now
          /\ now' = order.timestamp
          /\ submitted' = submitted + 1
          /\ inflight' = [inflight EXCEPT ![w] = order]
    /\ UNCHANGED <<accounts, hash_to_address, bookVars, result, panicked, hasher>>

\* main.rs create_order, second half, on worker w: engine.lock().unwrap()
\* and Engine::create_order with the order as stamped, under the lock.
ApplyOrder ==
    /\ \E w \in Worker :
          /\ inflight[w] # NoOrder
          /\ IF panicked THEN Poisoned("create_order", inflight[w])
             ELSE Leave("create_order", inflight[w],
                        create_order(accounts, hash_to_address, CurrentBook, inflight[w]))
          /\ inflight' = [inflight EXCEPT ![w] = NoOrder]
    /\ UNCHANGED <<hash_to_address, now, submitted, hasher>>

NextServer ==
    \/ StampOrder
    \/ ApplyOrder

\* The create_order handlers of the server's workers running concurrently,
\* on a ledger that holds accounts.
SpecServer == InitLedger /\ [][NextServer]_vars

\* =================================================================== claims
\* The sum of f[x] over x in S.
RECURSIVE SetSum(_, _)
SetSum(f, S) ==
    IF S = {} THEN 0
    ELSE LET x == CHOOSE y \in S : TRUE IN f[x] + SetSum(f, S \ {x})

\* The keys of a price-time index whose orders rest at price p.
KeysAt(index, p) == {k \in DOMAIN index : index[k].price = p}

\* The depth of an index at price p: the sum of the resting amounts.
DepthAt(index, p) == SetSum([k \in KeysAt(index, p) |-> index[k].amount], KeysAt(index, p))

\* An aggregated depth map agrees with a price-time index.
AggMatches(agg, index) ==
    /\ DOMAIN agg = {index[k].price : k \in DOMAIN index}
    /\ \A p \in DOMAIN agg : agg[p] = DepthAt(index, p)

\* No two orders the directory holds share side, price and timestamp (the
\* key of a price-time index).
DistinctKeys ==
    \A h1, h2 \in DOMAIN hash_to_order :
        LET o1 == hash_to_order[h1]
            o2 == hash_to_order[h2]
        IN (o1.side = o2.side /\ o1.price = o2.price /\ o1.timestamp = o2.timestamp)
              => h1 = h2

\* C2: after any sequence of add_bid / add_ask / delete_order calls, each
\* aggregated depth map has a key for exactly the prices at which an order
\* of its side rests, with the sum of the resting amounts as its value
\* (stated for books whose orders have distinct index keys, so that it does
\* not rest on two orders arriving with one timestamp).
C2_AggregatedDepthMatchesBook ==
    (~panicked /\ DistinctKeys) =>
        (AggMatches(agg_bid_amt, bids) /\ AggMatches(agg_ask_amt, asks))

\* The index of the side an order is on.
IndexOf(o) == IF o.side = "Bid" THEN bids ELSE asks

\* A directory record and an index entry are the same order (its identity:
\* every field but the remaining amount).
SameOrder(o, e) ==
    /\ o.nonce = e.nonce /\ o.price = e.price /\ o.side = e.side
    /\ o.trader_address = e.trader_address /\ o.timestamp = e.timestamp

\* C3: the hash directory and the two price-time indexes hold the same
\* resting orders: each directory record has exactly one index entry on its
\* side, each index entry exactly one directory record, and get_order
\* returns the remaining amount the index entry has.
C3_DirectoryMatchesIndexes ==
    ~panicked =>
      /\ \A h \in DOMAIN hash_to_order :
            LET o == get_order(CurrentBook, h).order
                ks == {k \in DOMAIN IndexOf(o) : SameOrder(o, IndexOf(o)[k])}
            IN /\ Cardinality(ks) = 1
               /\ \A k \in ks : IndexOf(o)[k].amount = o.amount
      /\ \A index \in {bids, asks} : \A k \in DOMAIN index :
            Cardinality({h \in DOMAIN hash_to_order :
                            SameOrder(hash_to_order[h], index[k])}) = 1

\* The index an order is matched against, and the order of its keys.
OppositeIndex(o) == IF o.side = "Bid" THEN asks ELSE bids
OppositeIndexAfter(o) == IF o.side = "Bid" THEN asks' ELSE bids'
Ahead(o, k1, k2) == IF o.side = "Bid" THEN AskKeyLE(k1, k2) ELSE BidKeyLE(k1, k2)

\* A resting order e is at a price the taker o accepts.
Crosses(o, e) == IF o.side = "Bid" THEN e.price <= o.price ELSE e.price >= o.price

\* The keys of a set in price-time priority for taker o, as a sequence.
RECURSIVE InPriority(_, _)
InPriority(o, keys) ==
    IF keys = {} THEN << >>
    ELSE LET k == CHOOSE x \in keys : \A y \in keys : Ahead(o, x, y)
         IN <<k>> \o InPriority(o, keys \ {k})

\* The resting orders taker o crosses, best price first, earliest first.
Queue(o) ==
    InPriority(o, {k \in DOMAIN OppositeIndex(o) : Crosses(o, OppositeIndex(o)[k])})

\* What is left at key k of the opposite index after the step (0: removed).
LeftAt(o, k) ==
    IF k \in DOMAIN OppositeIndexAfter(o) THEN OppositeIndexAfter(o)[k].amount ELSE 0

\* C10: price-time priority. An add that is no duplicate returns fills that
\* follow the queue of the resting orders it crosses: the i-th fill is at
\* the price of the i-th order of the queue and takes its amount from that
\* order; when the head of the queue is another trader's order there is at
\* least one fill, also when that order was partially filled before
\* (stated for books whose orders have distinct index keys).
C10_PriceTimePriority ==
    [][(/\ result'.op \in {"add_bid", "add_ask"}
        /\ ~panicked
        /\ DistinctKeys
        /\ result'.kind # "DuplicateOrder")
       => LET o == result'.order
              q == Queue(o)
              fills == result'.value
          IN /\ result'.kind = "Ok"
             /\ Len(fills) <= Len(q)
             /\ (q # << >> /\ OppositeIndex(o)[q[1]].trader_address # o.trader_address)
                   => Len(fills) >= 1
             /\ \A i \in 1..Len(fills) :
                   /\ fills[i].price = OppositeIndex(o)[q[i]].price
                   /\ LeftAt(o, q[i]) = OppositeIndex(o)[q[i]].amount - fills[i].fill_amount
      ]_vars

\* C1: after any sequence of create_account, delete_account, create_order
\* and delete_order, every account has 0 <= ddx_book_outstanding <=
\* ddx_balance and 0 <= usd_book_outstanding <= usd_balance.
C1_ReservedWithinBalance ==
    \A a \in DOMAIN accounts :
        /\ 0 <= accounts[a].ddx_book_outstanding
        /\ accounts[a].ddx_book_outstanding <= accounts[a].ddx_balance
        /\ 0 <= accounts[a].usd_book_outstanding
        /\ accounts[a].usd_book_outstanding <= accounts[a].usd_balance

\* C1's case: an accepted order has taken an account's whole usd balance
\* into reservation.
C1_Witness ==
    /\ result.op = "create_order" /\ result.kind = "Ok"
    /\ \E a \in DOMAIN accounts :
          /\ accounts[a].usd_book_outstanding = accounts[a].usd_balance
          /\ accounts[a].usd_balance > 0

SumDdx(accts) == SetSum([a \in DOMAIN accts |-> accts[a].ddx_balance], DOMAIN accts)
SumUsd(accts) == SetSum([a \in DOMAIN accts |-> accts[a].usd_balance], DOMAIN accts)

BidsOf(a) == {k \in DOMAIN bids : bids[k].trader_address = a}
AsksOf(a) == {k \in DOMAIN asks : asks[k].trader_address = a}
UsdResting(a) == SetSum([k \in BidsOf(a) |-> bids[k].amount * bids[k].price], BidsOf(a))
DdxResting(a) == SetSum([k \in AsksOf(a) |-> asks[k].amount], AsksOf(a))

C6_CreatedAccountIsStored ==
    (result.op = "create_account" /\ result.kind = "Ok") =>
        LET got == get_account(accounts, CurrentBook, result.value)
            again == create_account(accounts, CurrentBook, NewAccount(result.value, 0, 0))
        IN /\ got.kind = "Ok"
           /\ got.value.ddx_book_outstanding = 0
           /\ got.value.usd_book_outstanding = 0
           /\ again.kind = "AccountAlreadyExists"

\* An operation left the ledger and the book as they were.
EngineUnchanged == UNCHANGED <<accounts, hash_to_address, bookVars>>

\* C7: create_order for a trader_address that has no account returns
\* AccountNotFound and changes neither the ledger nor the book.
C7_UnknownTraderIsAnError ==
    [][(/\ result'.op = "create_order"
        /\ ~panicked
        /\ result'.order.trader_address \notin DOMAIN accounts)
       => (result'.kind = "AccountNotFound" /\ EngineUnchanged)
      ]_vars

Required(o) == IF o.side = "Bid" THEN o.amount * o.price ELSE o.amount
Free(o) ==
    LET acct == accounts[o.trader_address]
    IN IF o.side = "Bid" THEN acct.usd_balance - acct.usd_book_outstanding
       ELSE acct.ddx_balance - acct.ddx_book_outstanding

OwnIndexAfter(o) == IF o.side = "Bid" THEN bids' ELSE asks'

\* The amount a sequence of fills took.
RECURSIVE FilledAmount(_)
FilledAmount(fills) ==
    IF fills = << >> THEN 0 ELSE Head(fills).fill_amount + FilledAmount(Tail(fills))

\* The places of the queue q of taker o that hold an order of o's trader.
OwnPlaces(o, q) ==
    {j \in 1..Len(q) : OppositeIndex(o)[q[j]].trader_address = o.trader_address}

\* C11: self-match prevention. No fill of an add has a maker of the taker's
\* trader; when the queue the taker crosses holds an order of its own
\* trader, the add returns fills only against the orders ahead of the first
\* such order and what is left of the taker rests at the taker's price.
C11_SelfMatchStopsAndRests ==
    [][(/\ result'.op \in {"add_bid", "add_ask"}
        /\ ~panicked
        /\ result'.kind # "DuplicateOrder")
       => LET o == result'.order
              q == Queue(o)
              fills == result'.value
              left == o.amount - FilledAmount(fills)
              key == <<o.price, o.timestamp>>
          IN /\ \A i \in 1..Len(fills) :
                   fills[i].maker_hash \in DOMAIN hash_to_order
                      => hash_to_order[fills[i].maker_hash].trader_address
                            # o.trader_address
             /\ OwnPlaces(o, q) # {}
                   => /\ result'.kind = "Ok"
                      /\ \A j \in OwnPlaces(o, q) : Len(fills) < j
                      /\ left > 0
                            => /\ key \in DOMAIN OwnIndexAfter(o)
                               /\ OwnIndexAfter(o)[key].trader_address = o.trader_address
                               /\ OwnIndexAfter(o)[key].price = o.price
                               /\ OwnIndexAfter(o)[key].amount = left
      ]_vars


C13_NoZeroAmountRests ==
    ~panicked =>
        /\ \A k \in DOMAIN bids : bids[k].amount > 0
        /\ \A k \in DOMAIN asks : asks[k].amount > 0


C16_HashIgnoresTimestamp ==
    [][(result'.op \in {"add_bid", "add_ask"} /\ ~panicked)
       => LET o == result'.order
          IN \A t \in Time :
                LET o2 == [o EXCEPT !.timestamp = t]
                IN /\ Hash(o2) = Hash(o)
                   /\ Hash(o2) \in DOMAIN hash_to_order
                         => result'.kind = "DuplicateOrder"
      ]_vars

\* C16's case: an add was refused as the duplicate of an order that rests
\* with another timestamp.
C16_Witness ==
    /\ result.op \in {"add_bid", "add_ask"}
    /\ result.kind = "DuplicateOrder"
    /\ Hash(result.order) \in DOMAIN hash_to_order
    /\ hash_to_order[Hash(result.order)].timestamp # result.order.timestamp


\* C18: every fill's maker_hash is the hash under which its maker was
\* admitted: when the fills of an add are applied, the directory holds each
\* maker_hash, and the order it holds there is the resting order the fill
\* was struck against (the order at the fill's place in the queue), also
\* when that order was partially filled before.
C18_MakerHashIsAdmittedHash ==
    [][(/\ result'.op \in {"add_bid", "add_ask"}
        /\ ~panicked
        /\ result'.kind # "DuplicateOrder")
       => LET o == result'.order
              q == Queue(o)
              fills == result'.value
          IN /\ result'.kind = "Ok"
             /\ \A i \in 1..Len(fills) :
                   /\ i <= Len(q)
                   /\ fills[i].maker_hash \in DOMAIN hash_to_order
                   /\ SameOrder(hash_to_order[fills[i].maker_hash],
                                OppositeIndex(o)[q[i]])
      ]_vars


C17_VectorDigest ==
    hasher.job = 8 => hasher.done[7] = VectorDigest

\* The seven digests are out, the second of the two blocks of the order's
\* hash_struct included.
C17_Witness ==
    /\ hasher.job = 8
    /\ Len(hasher.done) = 7
    /\ Len(hasher.done[7]) = 32


\* The order a fill names as its maker, as the directory holds it before
\* the step.
MakerOf(fill) == hash_to_order[fill.maker_hash]

\* What is left of taker o when its fill number i is made.
TakerLeft(o, fills, i) == o.amount - FilledAmount(SubSeq(fills, 1, i - 1))

\* The amount with which taker o rests after the step, 0 if it does not.
RestedAmount(o) ==
    IF Hash(o) \in DOMAIN hash_to_order' THEN hash_to_order'[Hash(o)].amount ELSE 0

\* C21: quantity conservation for the taker. For every successful add of an
\* order of amount A, the fill amounts and the amount the taker rests with
\* add up to A; every fill names a maker that rests in the opposite index,
\* its amount is the smaller of what is left of the taker at that step and
\* of what the index holds of that maker, and its price is the maker's
\* resting price.
C21_TakerQuantityConserved ==
    [][(/\ result'.op \in {"add_bid", "add_ask"}
        /\ result'.kind = "Ok")
       => LET o == result'.order
              fills == result'.value
          IN /\ FilledAmount(fills) + RestedAmount(o) = o.amount
             /\ \A i \in 1..Len(fills) :
                   /\ fills[i].maker_hash \in DOMAIN hash_to_order
                   /\ LET m == MakerOf(fills[i])
                          key == <<m.price, m.timestamp>>
                      IN /\ key \in DOMAIN OppositeIndex(o)
                         /\ fills[i].fill_amount =
                               Min(TakerLeft(o, fills, i), OppositeIndex(o)[key].amount)
                         /\ fills[i].price = OppositeIndex(o)[key].price
      ]_vars


\* C22: hashing is total. For every order with amount >= 0 and price > 0,
\* amounts and prices with fractional digits included, the conversion of
\* the amount and of the price to a 256-bit integer succeeds, and add_bid /
\* add_ask return fills or DuplicateOrder.
C22_HashingIsTotal ==
    [][(/\ result'.op \in {"add_bid", "add_ask"}
        /\ submitted' = submitted + 1)
       => /\ decimal_to_u256(result'.order.amount).ok
          /\ decimal_to_u256(result'.order.price).ok
          /\ result'.kind \in {"Ok", "DuplicateOrder"}
      ]_vars


C24_LockStaysUsable ==
    /\ result.kind # "Panic"
    /\ ~panicked
    /\ result.kind # "PoisonError"

====
